---- MODULE Spec2Model ----
(***************************************************************************)
(* Model of braitenberg_vehicle::BraitenbergVehicleController              *)
(* (src/braitenberg_vehicle/src/braitenberg_vehicle_controller.cpp).       *)
(*                                                                         *)
(* The node owns an optional goal pose guarded by a std::mutex and three   *)
(* callbacks (scan_callback, goal_pose_callback, timer_callback) that the  *)
(* executor may run concurrently.  Every callback is modelled statement by *)
(* statement; pc[c] is the statement callback c executes next.             *)
(*                                                                         *)
(* Numbers: coordinates are integers (grid units); sensor readings and     *)
(* distances are fixed-point numbers with Prec units per 1.0.              *)
(***************************************************************************)
EXTENDS Integers, Sequences, FiniteSets, TLC

\* ------------------------------------------------------------------ bounds
\* counters of published commands / completed ticks count up to MaxTicks
MaxTicks == 2
\* fixed-point resolution: the real number r is represented by r * Prec
Prec == 100

\* ------------------------------------------------------------ input domains
FrameIds == {"base_link", "map"}
XOffsets == {1}
YOffsets == {0, 1}
Pose(px, py, yaw) == [x |-> px, y |-> py, yaw |-> yaw]
\* sensor_msgs LaserScan messages: their ranges
Scans == {<<1>>, <<2, 3>>}
GoalPoses == {Pose(1, 1, 0), Pose(1, -1, 1), Pose(3, 2, 0), Pose(3, 2, 1)}

Callbacks == {"scan", "goal", "timer"}

\* ------------------------------------------------------------------- state
VARIABLES
  base_link_frame_id_,                      \* configured base frame id
  virtual_light_sensor_position_x_offset_,  \* configured sensor x offset
  virtual_light_sensor_position_y_offset_,  \* configured sensor y offset
  goal_pose_,       \* std::optional<Pose>: [engaged, value]
  mutex_,           \* "free" or the callback that holds the lock
  pc,               \* pc[c]: next statement of callback c, "idle" if not running
  pose,             \* argument of the running goal_pose_callback, or NoMsg
  scan,             \* argument of the running scan_callback, or NoScan
  last_goal,        \* message of the goal update that returned last, or NoMsg
  tick_ctx,         \* outcome of the last returned goal update when the
                    \* running tick was invoked and when it got the mutex
  args,             \* arguments of get_twist evaluated so far by the tick
  twist,            \* message the tick is about to publish, or NoTwist
  reads,            \* goal values the running tick has read (test, right, left)
  mm_call,          \* arguments the running tick passed to get_twist, or NoCall
  tick_pubs,        \* commands published by the running tick
  cmd_vel,          \* last command published on /cmd_vel, or NoTwist
  published,        \* commands published so far (counts up to MaxTicks)
  ticks             \* ticks that returned so far (counts up to MaxTicks)

config == <<base_link_frame_id_, virtual_light_sensor_position_x_offset_,
            virtual_light_sensor_position_y_offset_>>
tick_locals == <<args, twist, reads, mm_call, tick_pubs>>
outputs == <<cmd_vel, published, ticks>>
vars == <<base_link_frame_id_, virtual_light_sensor_position_x_offset_,
          virtual_light_sensor_position_y_offset_, goal_pose_, mutex_, pc,
          pose, scan, last_goal, tick_ctx, args, twist, reads, mm_call,
          tick_pubs, cmd_vel, published,
          ticks>>

\* ------------------------------------------------------------ value helpers
NoMsg == [frame_id |-> "", pose |-> Pose(0, 0, 0)]
NoScan == <<>>
NoCtx == [start |-> "unset", lock |-> "unset"]
Unset == -1
NoArgs == [left |-> Unset, right |-> Unset]
NoTwist == [linear |-> Unset, angular |-> Unset]
NoCall == NoArgs
NotRead == [engaged |-> FALSE, value |-> Pose(0, 0, Unset)]
NoReads == [test |-> NotRead, right |-> NotRead, left |-> NotRead]

\* std::nullopt: a disengaged optional (its storage holds no pose)
nullopt == [engaged |-> FALSE, value |-> Pose(0, 0, 0)]
Some(p) == [engaged |-> TRUE, value |-> p]

\* geometry_msgs::msg::Twist(): all fields zero
Twist == [linear |-> 0, angular |-> 0]

\* std::numeric_limits<double>::epsilon() (2.2e-16) at resolution 1/Prec
e == 0

Abs(n) == IF n < 0 THEN -n ELSE n

\* std::hypot(dx, dy) of grid coordinates, as a fixed-point distance
RECURSIVE SqrtBetween(_, _, _)
\* the greatest r in lo..hi with r * r <= n, by bisection
SqrtBetween(n, lo, hi) ==
  IF lo >= hi THEN lo
  ELSE LET mid == (lo + hi + 1) \div 2
       IN IF mid * mid <= n THEN SqrtBetween(n, mid, hi)
                            ELSE SqrtBetween(n, lo, mid - 1)

hypot(dx, dy) ==
  SqrtBetween((dx * dx + dy * dy) * Prec * Prec, 0,
              (Abs(dx) + Abs(dy)) * Prec)

\* the double +infinity, above every finite reading
inf == Prec * Prec * Prec

\* 1 / distance in double arithmetic: dividing by 0.0 gives +infinity
reciprocal(distance) ==
  IF distance = 0 THEN inf ELSE (Prec * Prec) \div distance

\* the sensor without the test against epsilon
emulate_light_sensor_unguarded(x_offset, y_offset) ==
  IF goal_pose_.engaged
  THEN reciprocal(hypot(goal_pose_.value.x - x_offset,
                        goal_pose_.value.y - y_offset))
  ELSE 0

\* the sensor dividing by the squared distance (the square root left out)
emulate_light_sensor_squared(x_offset, y_offset) ==
  IF goal_pose_.engaged
  THEN LET dx == goal_pose_.value.x - x_offset
           dy == goal_pose_.value.y - y_offset
       IN IF dx * dx + dy * dy = 0
          THEN Prec
          ELSE Prec \div (dx * dx + dy * dy)
  ELSE 0

\* emulate_light_sensor(x_offset, y_offset): reads goal_pose_
emulate_light_sensor(x_offset, y_offset) ==
  IF goal_pose_.engaged
  THEN LET distance == hypot(goal_pose_.value.x - x_offset,
                             goal_pose_.value.y - y_offset)
       IN IF Abs(distance) <= e
          THEN Prec                    \* return 1
          ELSE reciprocal(distance)    \* return 1 / distance
  ELSE 0

\* motion_model_.get_twist(left, right): differential drive, a pure
\* function of the two wheel inputs
get_twist(left, right) == [linear |-> left + right, angular |-> right - left]

\* counters count up to MaxTicks
Count(n) == IF n < MaxTicks THEN n + 1 ELSE n

\* ------------------------------------------------------------ construction
\* callbacks the constructor registers with the executor
RegisteredSubscriptions == {"scan", "goal"}
\* callbacks the constructor registers with a timer
RegisteredTimers == {}

Init ==
  /\ base_link_frame_id_ \in FrameIds
  /\ virtual_light_sensor_position_x_offset_ \in XOffsets
  /\ virtual_light_sensor_position_y_offset_ \in YOffsets
  /\ goal_pose_ = nullopt
  /\ mutex_ = "free"
  /\ pc = [c \in Callbacks |-> "idle"]
  /\ pose = NoMsg
  /\ scan = NoScan
  /\ last_goal = NoMsg
  /\ tick_ctx = NoCtx
  /\ args = NoArgs
  /\ twist = NoTwist
  /\ reads = NoReads
  /\ mm_call = NoCall
  /\ tick_pubs = 0
  /\ cmd_vel = NoTwist
  /\ published = 0
  /\ ticks = 0

\* ----------------------------------------------------------- std::mutex
\* a lock() that does not wait for the mutex to be free
lock_nowait(c) == mutex_' = c

\* mutex_.lock() by callback c: blocks while the mutex is held
lock(c) == mutex_ = "free" /\ mutex_' = c
\* mutex_.unlock()
unlock == mutex_' = "free"

\* ------------------------------------------------------------ scan_callback
ScanStart(s) ==
  /\ "scan" \in RegisteredSubscriptions
  /\ pc["scan"] = "idle"
  /\ scan' = s
  /\ pc' = [pc EXCEPT !["scan"] = "lock"]
  /\ UNCHANGED <<config, last_goal, tick_ctx, goal_pose_, mutex_, pose,
                 tick_locals, outputs>>

ScanLock ==
  /\ pc["scan"] = "lock"
  /\ lock("scan")
  /\ pc' = [pc EXCEPT !["scan"] = "unlock"]
  /\ UNCHANGED <<config, scan, last_goal, tick_ctx, goal_pose_, pose,
                 tick_locals, outputs>>

\* scan_callback dropping the goal when the first range is an obstacle
ScanUnlockStopsAtObstacle ==
  /\ pc["scan"] = "unlock"
  /\ unlock
  /\ goal_pose_' = IF scan[1] < 2 THEN nullopt ELSE goal_pose_
  /\ pc' = [pc EXCEPT !["scan"] = "idle"]
  /\ scan' = NoScan
  /\ UNCHANGED <<config, last_goal, tick_ctx, pose, tick_locals, outputs>>

ScanUnlock ==
  /\ pc["scan"] = "unlock"
  /\ unlock
  /\ pc' = [pc EXCEPT !["scan"] = "idle"]
  /\ scan' = NoScan
  /\ UNCHANGED <<config, last_goal, tick_ctx, goal_pose_, pose, tick_locals,
                 outputs>>

\* ------------------------------------------------------- goal_pose_callback
GoalStart(P, F) ==
  /\ "goal" \in RegisteredSubscriptions
  /\ pc["goal"] = "idle"
  /\ pose' = [frame_id |-> F, pose |-> P]
  /\ pc' = [pc EXCEPT !["goal"] = "lock"]
  /\ UNCHANGED <<config, scan, last_goal, tick_ctx, goal_pose_, mutex_,
                 tick_locals, outputs>>

\* goal_pose_callback entering its critical section without the mutex
GoalLockNoWait ==
  /\ pc["goal"] = "lock"
  /\ pc' = [pc EXCEPT !["goal"] = "check"]
  /\ UNCHANGED <<config, scan, last_goal, tick_ctx, goal_pose_, mutex_, pose,
                 tick_locals, outputs>>

GoalLock ==
  /\ pc["goal"] = "lock"
  /\ lock("goal")
  /\ pc' = [pc EXCEPT !["goal"] = "check"]
  /\ UNCHANGED <<config, scan, last_goal, tick_ctx, goal_pose_, pose,
                 tick_locals, outputs>>

\* the frame test accepting every frame id
AnyFrameMatches == TRUE

\* the frame test with == and != confused
FrameDiffers == pose.frame_id # base_link_frame_id_

\* if (pose->header.frame_id == base_link_frame_id_)
FrameMatches == pose.frame_id = base_link_frame_id_

GoalCheck ==
  /\ pc["goal"] = "check"
  /\ pc' = [pc EXCEPT !["goal"] =
              IF FrameMatches THEN "assign_position" ELSE "reset"]
  /\ UNCHANGED <<config, scan, last_goal, tick_ctx, goal_pose_, mutex_, pose,
                 tick_locals, outputs>>

\* the assignment keeping the position of a goal that is already held
GoalAssignPositionKeepsFirst ==
  /\ pc["goal"] = "assign_position"
  /\ goal_pose_' = IF goal_pose_.engaged THEN goal_pose_
                   ELSE [goal_pose_ EXCEPT !.value.x = pose.pose.x,
                                           !.value.y = pose.pose.y]
  /\ pc' = [pc EXCEPT !["goal"] = "assign_orientation"]
  /\ UNCHANGED <<config, scan, last_goal, tick_ctx, mutex_, pose,
                 tick_locals, outputs>>

\* goal_pose_ = pose->pose: the members are copied one after the other, and
\* a disengaged optional becomes engaged once its value is complete
GoalAssignPosition ==
  /\ pc["goal"] = "assign_position"
  /\ goal_pose_' = [goal_pose_ EXCEPT !.value.x = pose.pose.x,
                                      !.value.y = pose.pose.y]
  /\ pc' = [pc EXCEPT !["goal"] = "assign_orientation"]
  /\ UNCHANGED <<config, scan, last_goal, tick_ctx, mutex_, pose, tick_locals,
                 outputs>>

GoalAssignOrientation ==
  /\ pc["goal"] = "assign_orientation"
  /\ goal_pose_' = [goal_pose_ EXCEPT !.value.yaw = pose.pose.yaw,
                                      !.engaged = TRUE]
  /\ pc' = [pc EXCEPT !["goal"] = "unlock"]
  /\ UNCHANGED <<config, scan, last_goal, tick_ctx, mutex_, pose, tick_locals,
                 outputs>>

\* the rejection leaving the goal as it is
GoalResetKeepsGoal ==
  /\ pc["goal"] = "reset"
  /\ pc' = [pc EXCEPT !["goal"] = "unlock"]
  /\ UNCHANGED <<config, scan, last_goal, tick_ctx, goal_pose_, mutex_, pose,
                 tick_locals, outputs>>

\* goal_pose_ = std::nullopt
GoalReset ==
  /\ pc["goal"] = "reset"
  /\ goal_pose_' = nullopt
  /\ pc' = [pc EXCEPT !["goal"] = "unlock"]
  /\ UNCHANGED <<config, scan, last_goal, tick_ctx, mutex_, pose, tick_locals,
                 outputs>>

GoalUnlock ==
  /\ pc["goal"] = "unlock"
  /\ unlock
  /\ pc' = [pc EXCEPT !["goal"] = "idle"]
  /\ pose' = NoMsg
  /\ last_goal' = pose
  /\ UNCHANGED <<config, scan, tick_ctx, goal_pose_, tick_locals, outputs>>

\* ----------------------------------------------------------- timer_callback
\* outcome of the goal update that returned last
LastUpdate ==
  IF last_goal = NoMsg THEN "none"
  ELSE IF last_goal.frame_id = base_link_frame_id_ THEN "accepted"
  ELSE "rejected"

TimerStart ==
  /\ pc["timer"] = "idle"
  /\ pc' = [pc EXCEPT !["timer"] = "lock"]
  /\ tick_ctx' = [tick_ctx EXCEPT !.start = LastUpdate]
  /\ UNCHANGED <<config, scan, last_goal, goal_pose_, mutex_, pose,
                 tick_locals, outputs>>

\* timer_callback entering its critical section without the mutex
TimerLockNoWait ==
  /\ pc["timer"] = "lock"
  /\ pc' = [pc EXCEPT !["timer"] = "test"]
  /\ tick_ctx' = [tick_ctx EXCEPT !.lock = LastUpdate]
  /\ UNCHANGED <<config, scan, last_goal, goal_pose_, mutex_, pose,
                 tick_locals, outputs>>

TimerLock ==
  /\ pc["timer"] = "lock"
  /\ lock("timer")
  /\ pc' = [pc EXCEPT !["timer"] = "test"]
  /\ tick_ctx' = [tick_ctx EXCEPT !.lock = LastUpdate]
  /\ UNCHANGED <<config, scan, last_goal, goal_pose_, pose, tick_locals,
                 outputs>>

\* the tick without its else branch: the motion model is always used
TimerTestNoElse ==
  /\ pc["timer"] = "test"
  /\ reads' = [reads EXCEPT !.test = goal_pose_]
  /\ pc' = [pc EXCEPT !["timer"] = "args"]
  /\ UNCHANGED <<config, scan, last_goal, tick_ctx, goal_pose_, mutex_, pose,
                 args, twist, mm_call,
                 tick_pubs, outputs>>

\* the tick with an empty else branch: nothing is published without a goal
TimerTestSilentIdle ==
  /\ pc["timer"] = "test"
  /\ reads' = [reads EXCEPT !.test = goal_pose_]
  /\ pc' = [pc EXCEPT !["timer"] =
              IF goal_pose_.engaged THEN "args" ELSE "unlock"]
  /\ UNCHANGED <<config, scan, last_goal, tick_ctx, goal_pose_, mutex_, pose,
                 args, twist, mm_call,
                 tick_pubs, outputs>>

\* if (goal_pose_) ... else: the else branch builds Twist()
TimerTest ==
  /\ pc["timer"] = "test"
  /\ reads' = [reads EXCEPT !.test = goal_pose_]
  /\ IF goal_pose_.engaged
     THEN /\ pc' = [pc EXCEPT !["timer"] = "args"]
          /\ twist' = twist
     ELSE /\ pc' = [pc EXCEPT !["timer"] = "publish"]
          /\ twist' = Twist
  /\ UNCHANGED <<config, scan, last_goal, tick_ctx, goal_pose_, mutex_, pose,
                 args, mm_call, tick_pubs,
                 outputs>>

\* the first argument taken from the left-mounted sensor (x, +y)
TimerSenseRightUncrossed ==
  /\ pc["timer"] = "args"
  /\ args.left = Unset
  /\ args' = [args EXCEPT !.left =
                emulate_light_sensor(virtual_light_sensor_position_x_offset_,
                                     virtual_light_sensor_position_y_offset_)]
  /\ reads' = [reads EXCEPT !.right = goal_pose_]
  /\ UNCHANGED <<config, scan, last_goal, tick_ctx, goal_pose_, mutex_, pc,
                 pose, twist, mm_call,
                 tick_pubs, outputs>>

\* the right-mounted sensor read by a sensor function that locks mutex_
TimerSenseRightRelocks ==
  /\ pc["timer"] = "args"
  /\ args.left = Unset
  /\ lock("timer")
  /\ args' = [args EXCEPT !.left =
                emulate_light_sensor(virtual_light_sensor_position_x_offset_,
                                     virtual_light_sensor_position_y_offset_ * (-1))]
  /\ reads' = [reads EXCEPT !.right = goal_pose_]
  /\ UNCHANGED <<config, scan, last_goal, tick_ctx, goal_pose_, pc, pose,
                 twist, mm_call, tick_pubs, outputs>>

\* the right-mounted sensor read after negating the y offset in place
TimerSenseRightNegatesOffset ==
  /\ pc["timer"] = "args"
  /\ args.left = Unset
  /\ virtual_light_sensor_position_y_offset_' =
       virtual_light_sensor_position_y_offset_ * (-1)
  /\ args' = [args EXCEPT !.left =
                emulate_light_sensor(virtual_light_sensor_position_x_offset_,
                                     virtual_light_sensor_position_y_offset_ * (-1))]
  /\ reads' = [reads EXCEPT !.right = goal_pose_]
  /\ UNCHANGED <<base_link_frame_id_,
                 virtual_light_sensor_position_x_offset_, scan, last_goal,
                 tick_ctx, goal_pose_, mutex_, pc, pose, twist, mm_call,
                 tick_pubs, outputs>>

\* first argument of get_twist: the right-mounted sensor (x, -y)
TimerSenseRight ==
  /\ pc["timer"] = "args"
  /\ args.left = Unset
  /\ args' = [args EXCEPT !.left =
                emulate_light_sensor(virtual_light_sensor_position_x_offset_,
                                     virtual_light_sensor_position_y_offset_ * (-1))]
  /\ reads' = [reads EXCEPT !.right = goal_pose_]
  /\ UNCHANGED <<config, scan, last_goal, tick_ctx, goal_pose_, mutex_, pc,
                 pose, twist, mm_call,
                 tick_pubs, outputs>>

\* second argument of get_twist: the left-mounted sensor (x, +y)
TimerSenseLeft ==
  /\ pc["timer"] = "args"
  /\ args.right = Unset
  /\ args' = [args EXCEPT !.right =
                emulate_light_sensor(virtual_light_sensor_position_x_offset_,
                                     virtual_light_sensor_position_y_offset_)]
  /\ reads' = [reads EXCEPT !.left = goal_pose_]
  /\ UNCHANGED <<config, scan, last_goal, tick_ctx, goal_pose_, mutex_, pc,
                 pose, twist, mm_call,
                 tick_pubs, outputs>>

\* the tick unlocking as soon as the command is computed, before publishing
TimerGetTwistThenUnlock ==
  /\ pc["timer"] = "args"
  /\ args.left # Unset /\ args.right # Unset
  /\ mm_call' = args
  /\ twist' = get_twist(args.left, args.right)
  /\ unlock
  /\ pc' = [pc EXCEPT !["timer"] = "publish"]
  /\ UNCHANGED <<config, scan, last_goal, tick_ctx, goal_pose_, pose, args,
                 reads, tick_pubs, outputs>>

\* motion_model_.get_twist(args) once both arguments are evaluated
TimerGetTwist ==
  /\ pc["timer"] = "args"
  /\ args.left # Unset /\ args.right # Unset
  /\ mm_call' = args
  /\ twist' = get_twist(args.left, args.right)
  /\ pc' = [pc EXCEPT !["timer"] = "publish"]
  /\ UNCHANGED <<config, scan, last_goal, tick_ctx, goal_pose_, mutex_, pose,
                 args, reads, tick_pubs,
                 outputs>>

\* twist_pub_->publish(twist) returns
TimerPublish ==
  /\ pc["timer"] = "publish"
  /\ cmd_vel' = twist
  /\ published' = Count(published)
  /\ tick_pubs' = tick_pubs + 1
  /\ pc' = [pc EXCEPT !["timer"] = "unlock"]
  /\ UNCHANGED <<config, scan, last_goal, tick_ctx, goal_pose_, mutex_, pose,
                 args, twist, reads,
                 mm_call, ticks>>

\* twist_pub_->publish(twist) throws: the exception leaves timer_callback,
\* the statements after the call are not executed
TimerThrow ==
  /\ pc["timer"] = "publish"
  /\ pc' = [pc EXCEPT !["timer"] = "idle"]
  /\ args' = NoArgs /\ twist' = NoTwist /\ reads' = NoReads
  /\ mm_call' = NoCall /\ tick_pubs' = 0 /\ tick_ctx' = NoCtx
  /\ UNCHANGED <<config, scan, last_goal, goal_pose_, mutex_, pose, outputs>>

TimerUnlock ==
  /\ pc["timer"] = "unlock"
  /\ unlock
  /\ pc' = [pc EXCEPT !["timer"] = "idle"]
  /\ ticks' = Count(ticks)
  /\ args' = NoArgs /\ twist' = NoTwist /\ reads' = NoReads
  /\ mm_call' = NoCall /\ tick_pubs' = 0 /\ tick_ctx' = NoCtx
  /\ UNCHANGED <<config, scan, last_goal, goal_pose_, pose, cmd_vel,
                 published>>

\* ------------------------------------------------------------ specification
Next ==
  \/ \E s \in Scans : ScanStart(s)
  \/ ScanLock
  \/ ScanUnlock
  \/ \E P \in GoalPoses, F \in FrameIds : GoalStart(P, F)
  \/ GoalLock
  \/ GoalCheck
  \/ GoalAssignPosition
  \/ GoalAssignOrientation
  \/ GoalReset
  \/ GoalUnlock
  \/ TimerStart
  \/ TimerLock
  \/ TimerTest
  \/ TimerSenseRight
  \/ TimerSenseLeft
  \/ TimerGetTwist
  \/ TimerPublish
  \/ TimerThrow
  \/ TimerUnlock

Spec == Init /\ [][Next]_vars

TypeOK ==
  /\ base_link_frame_id_ \in FrameIds
  /\ mutex_ \in {"free"} \cup Callbacks
  /\ goal_pose_.engaged \in BOOLEAN
  /\ published \in 0..MaxTicks
  /\ ticks \in 0..MaxTicks

\* The executor runs a started callback to its end: every statement of a
\* running callback is eventually executed, and a callback waiting in
\* mutex_.lock() gets the mutex if it is free again and again.  Messages on
\* /scan and /goal_pose may or may not arrive.  A callback is invoked
\* periodically only if the constructor registered it with a timer.
Fairness ==
  /\ SF_vars(ScanLock) /\ WF_vars(ScanUnlock)
  /\ SF_vars(GoalLock) /\ WF_vars(GoalCheck)
  /\ WF_vars(GoalAssignPosition) /\ WF_vars(GoalAssignOrientation)
  /\ WF_vars(GoalReset) /\ WF_vars(GoalUnlock)
  /\ SF_vars(TimerLock) /\ WF_vars(TimerTest)
  /\ WF_vars(TimerSenseRight) /\ WF_vars(TimerSenseLeft)
  /\ WF_vars(TimerGetTwist) /\ WF_vars(TimerPublish \/ TimerThrow)
  /\ WF_vars(TimerUnlock)
  /\ WF_vars("timer" \in RegisteredTimers /\ TimerStart)

FairSpec == Spec /\ Fairness

\* ------------------------------------------------------------------ claims
InTick == {"test", "args", "publish", "unlock"}

\* C1 (frame gate): when goal_pose_callback has handled the message (P, F)
\* and is about to unlock, the stored goal is Some(P) if F equals the
\* configured base frame id and None otherwise, whatever it held before.
FrameGate ==
  pc["goal"] = "unlock" =>
    /\ (pose.frame_id = base_link_frame_id_ => goal_pose_ = Some(pose.pose))
    /\ (pose.frame_id # base_link_frame_id_ => goal_pose_ = nullopt)
    /\ (goal_pose_.engaged <=> pose.frame_id = base_link_frame_id_)

\* a goal update in the base frame replaced a goal, and is about to return
FrameGateWitness ==
  /\ pc["goal"] = "unlock"
  /\ pose.frame_id = base_link_frame_id_
  /\ pose.pose \in GoalPoses
  /\ goal_pose_ = Some(pose.pose)
  /\ cmd_vel \notin {NoTwist, Twist}

\* C2 (idle stop): a tick that found the goal None publishes the zero
\* command, exactly one command, and does not call the motion model.
IdleStop ==
  (pc["timer"] \in {"publish", "unlock"} /\ reads.test = nullopt) =>
    /\ mm_call = NoCall
    /\ args = NoArgs
    /\ twist = Twist
    /\ pc["timer"] = "publish" => tick_pubs = 0
    /\ pc["timer"] = "unlock" =>
         (tick_pubs = 1 /\ cmd_vel = [linear |-> 0, angular |-> 0])

\* an idle tick has published its zero command after a seeking tick
IdleStopWitness ==
  /\ pc["timer"] = "unlock"
  /\ reads.test = nullopt
  /\ cmd_vel = Twist
  /\ ticks > 0

\* C3 (crossed wiring): in a tick that found a goal, the first (left-input)
\* argument of get_twist is the reading of the right-mounted sensor
\* (x_offset, -y_offset), the second (right-input) argument the reading of
\* the left-mounted sensor (x_offset, +y_offset), and the command published
\* is get_twist of exactly that pair.
CrossedWiring ==
  (pc["timer"] = "unlock" /\ reads.test.engaged) =>
    /\ mm_call.left =
         emulate_light_sensor(virtual_light_sensor_position_x_offset_,
                              0 - virtual_light_sensor_position_y_offset_)
    /\ mm_call.right =
         emulate_light_sensor(virtual_light_sensor_position_x_offset_,
                              virtual_light_sensor_position_y_offset_)
    /\ cmd_vel = get_twist(mm_call.left, mm_call.right)

\* a seeking tick published a command whose two inputs differ: offsets
\* (1, 1), goal (3, 2), right sensor at distance sqrt(13), left at sqrt(5)
CrossedWiringWitness ==
  /\ pc["timer"] = "unlock"
  /\ reads.test.engaged
  /\ virtual_light_sensor_position_y_offset_ = 1
  /\ goal_pose_.value.x = 3
  /\ mm_call.left = 27
  /\ mm_call.right = 44
  /\ cmd_vel = [linear |-> 71, angular |-> 17]

\* C4 (one message per tick): the commands published are as many as the
\* ticks that returned (plus the one of a tick between its publish and its
\* return), a tick publishes at most once, and nothing but the publish
\* statement of timer_callback publishes.
PublishedPerTick ==
  /\ tick_pubs = (IF pc["timer"] = "unlock" THEN 1 ELSE 0)
  /\ ticks < MaxTicks => published = ticks + tick_pubs

OnlyTickPublishes ==
  (published' # published \/ cmd_vel' # cmd_vel \/ tick_pubs' > tick_pubs) =>
    /\ pc["timer"] = "publish" /\ pc'["timer"] = "unlock"
    /\ pc'["scan"] = pc["scan"] /\ pc'["goal"] = pc["goal"]
    /\ tick_pubs' = tick_pubs + 1

OneMessagePerTick == []PublishedPerTick /\ [][OnlyTickPublishes]_vars

\* a computed and a zero command were published by two ticks, interleaved
\* with goal and scan updates
OneMessagePerTickWitness ==
  /\ published = 2 /\ ticks = 1
  /\ pc["timer"] = "unlock"
  /\ pc["goal"] = "lock" /\ pc["scan"] = "lock"
  /\ cmd_vel # Twist

\* C5 (tick sees one consistent goal): the goal the tick tested, the goal
\* of the right-sensor reading and the goal of the left-sensor reading are
\* the same value, that value is None or a pose of a goal message in full,
\* and the goal does not change between the tick's lock and its unlock.
ReadsConsistent ==
  /\ reads.test # NotRead =>
       reads.test \in {nullopt} \cup {Some(p) : p \in GoalPoses}
  /\ reads.right # NotRead => reads.right = reads.test
  /\ reads.left # NotRead => reads.left = reads.test
  /\ pc["timer"] \in InTick \ {"test"} => reads.test = goal_pose_
  /\ (pc["timer"] \in {"publish", "unlock"} /\ reads.test # nullopt) =>
       (reads.right = reads.test /\ reads.left = reads.test)

NoWriteDuringTick ==
  (pc["timer"] \in InTick /\ pc'["timer"] \in InTick) =>
    goal_pose_' = goal_pose_

TickSeesOneGoal == []ReadsConsistent /\ [][NoWriteDuringTick]_vars

\* a tick has read the goal three times while a goal update with another
\* pose waits for the mutex
TickSeesOneGoalWitness ==
  /\ pc["timer"] = "publish"
  /\ reads.test.engaged
  /\ reads.left = reads.test /\ reads.right = reads.test
  /\ pc["goal"] = "lock"
  /\ pose.frame_id = base_link_frame_id_
  /\ pose.pose # goal_pose_.value

\* C6 (lock released on every exit path): whenever no callback is
\* executing, the mutex is free.
LockReleasedOnExit ==
  (\A c \in Callbacks : pc[c] = "idle") => mutex_ = "free"

\* C7 (the lock is never held across a publish), as claimed: while
\* timer_callback executes the publish, the mutex is not held.
NoLockAcrossPublish ==
  pc["timer"] = "publish" => mutex_ = "free"

\* C7, amended: timer_callback holds the mutex from its lock to its unlock,
\* the publish included.
LockHeldAcrossPublish ==
  /\ pc["timer"] = "publish" => mutex_ = "timer"
  /\ pc["timer"] \in InTick => mutex_ = "timer"

\* the tick is publishing a computed command, goal and scan updates wait
LockHeldAcrossPublishWitness ==
  /\ pc["timer"] = "publish"
  /\ twist # Twist
  /\ mutex_ = "timer"
  /\ pc["goal"] = "lock" /\ pc["scan"] = "lock"

\* C8 (mode state machine): the controller starts IDLE; the goal changes
\* only in the assignments of goal_pose_callback; IDLE to SEEKING happens
\* only for a message in the base frame and stores its pose, SEEKING to
\* IDLE only for a message in another frame; a finished update leaves
\* SEEKING with the new pose if accepted and IDLE if rejected.
SEEKING == goal_pose_.engaged
IDLE == ~goal_pose_.engaged

ModeStep ==
  /\ goal_pose_' # goal_pose_ =>
       /\ pc["goal"] \in {"assign_position", "assign_orientation", "reset"}
       /\ pc'["goal"] # pc["goal"]
       /\ pc'["scan"] = pc["scan"] /\ pc'["timer"] = pc["timer"]
  /\ (IDLE /\ SEEKING') =>
       (pose.frame_id = base_link_frame_id_ /\ goal_pose_' = Some(pose.pose))
  /\ (SEEKING /\ IDLE') => pose.frame_id # base_link_frame_id_
  /\ (pc["goal"] # "unlock" /\ pc'["goal"] = "unlock") =>
       /\ pose.frame_id = base_link_frame_id_ =>
            (SEEKING' /\ goal_pose_'.value = pose.pose)
       /\ pose.frame_id # base_link_frame_id_ => IDLE'

ModeStateMachine == IDLE /\ [][ModeStep]_vars

\* a rejected goal update has taken the controller from SEEKING (a computed
\* command was published) to IDLE
ModeStateMachineWitness ==
  /\ pc["goal"] = "unlock"
  /\ pose.frame_id # base_link_frame_id_
  /\ IDLE
  /\ cmd_vel \notin {NoTwist, Twist}

\* C9 (periodic velocity output): velocity commands are published again
\* and again in every run.
PeriodicOutput == []<><<TimerPublish>>_vars

\* C10 (no operation blocks indefinitely): every callback invocation that
\* starts eventually returns.
NoIndefiniteBlocking ==
  \A c \in Callbacks : (pc[c] # "idle") ~> (pc[c] = "idle")

\* C11 (degrade to stop), as claimed: a tick invoked while the goal update
\* that returned last was a rejected one publishes the zero command.
DegradeToStopFromStart ==
  (pc["timer"] = "unlock" /\ tick_ctx.start = "rejected") => cmd_vel = Twist

\* C11, amended: a tick that gets the mutex while the goal update that
\* returned last was a rejected one publishes the zero command and does not
\* call the motion model.
DegradeToStop ==
  (pc["timer"] \in {"publish", "unlock"} /\ tick_ctx.lock = "rejected") =>
    /\ reads.test = nullopt
    /\ twist = [linear |-> 0, angular |-> 0]
    /\ mm_call = NoCall
    /\ pc["timer"] = "unlock" => cmd_vel = [linear |-> 0, angular |-> 0]

\* after a computed command, a rejected update returned and the next tick
\* published zero while an accepted update waits for the mutex
DegradeToStopWitness ==
  /\ pc["timer"] = "unlock"
  /\ tick_ctx.lock = "rejected"
  /\ cmd_vel = Twist
  /\ published = 2 /\ ticks = 1
  /\ pc["goal"] = "lock"
  /\ pose.frame_id = base_link_frame_id_

\* C12 (last write wins): whenever no goal update is in its critical
\* section, the stored goal is the outcome of the goal update that returned
\* last: Some(its pose) if its frame matched, None otherwise (None before
\* the first update), whatever updates, scans and ticks ran before.
Outcome(m) ==
  IF m # NoMsg /\ m.frame_id = base_link_frame_id_
  THEN [engaged |-> TRUE, value |-> m.pose]
  ELSE [engaged |-> FALSE, value |-> Pose(0, 0, 0)]

LastWriteWins ==
  pc["goal"] \in {"idle", "lock"} => goal_pose_ = Outcome(last_goal)

\* an accepted update replaced the goal after a tick and a scan ran, and
\* another update with a different pose is waiting
LastWriteWinsWitness ==
  /\ pc["goal"] = "lock"
  /\ last_goal.frame_id = base_link_frame_id_
  /\ goal_pose_ = Some(last_goal.pose)
  /\ pose.pose # last_goal.pose
  /\ ticks > 0
  /\ cmd_vel \notin {NoTwist, Twist}

\* offsets at which the sensor law is evaluated
OffsetPoints == {<<ox, oy>> : ox \in 0..2, oy \in -1..1}

\* C13 (zero-distance saturation): for every offset O, when the held goal
\* lies exactly on O, emulate_light_sensor(O.x, O.y) is 1 (not the infinity
\* of a division by zero); so a tick reads 1 from a sensor the goal lies on.
ZeroDistanceSaturation ==
  /\ \A O \in OffsetPoints :
       (goal_pose_.engaged /\ goal_pose_.value.x = O[1]
                           /\ goal_pose_.value.y = O[2]) =>
         emulate_light_sensor(O[1], O[2]) = Prec
  /\ (pc["timer"] = "args" /\ args.left # Unset
      /\ goal_pose_.value.x = virtual_light_sensor_position_x_offset_
      /\ goal_pose_.value.y = 0 - virtual_light_sensor_position_y_offset_) =>
       args.left = Prec
  /\ (pc["timer"] = "args" /\ args.right # Unset
      /\ goal_pose_.value.x = virtual_light_sensor_position_x_offset_
      /\ goal_pose_.value.y = virtual_light_sensor_position_y_offset_) =>
       args.right = Prec

\* the goal (1, -1) lies on the right-mounted sensor (1, -1) and the tick
\* has read that sensor
ZeroDistanceSaturationWitness ==
  /\ pc["timer"] = "args"
  /\ goal_pose_ = Some(Pose(1, -1, 1))
  /\ virtual_light_sensor_position_x_offset_ = 1
  /\ virtual_light_sensor_position_y_offset_ = 1
  /\ args.left = Prec

\* C14 (inverse-distance law): for a held goal at distance d > epsilon from
\* the offset point, the reading r is 1/d within one unit of the
\* resolution, i.e. (r - 1/Prec) * d <= 1 <= (r + 1/Prec) * d, stated on
\* the squares; and a goal update that changes only the orientation leaves
\* every reading unchanged.
InverseDistance ==
  \A O \in OffsetPoints :
    LET dx == goal_pose_.value.x - O[1]
        dy == goal_pose_.value.y - O[2]
        r == emulate_light_sensor(O[1], O[2])
    IN (goal_pose_.engaged /\ dx * dx + dy * dy > 0) =>
         /\ r >= 1
         /\ (r - 1) * (r - 1) * (dx * dx + dy * dy) <= Prec * Prec
         /\ Prec * Prec <= (r + 1) * (r + 1) * (dx * dx + dy * dy)

OrientationIrrelevant ==
  (/\ goal_pose_' # goal_pose_
   /\ goal_pose_.engaged /\ goal_pose_'.engaged
   /\ goal_pose_'.value.x = goal_pose_.value.x
   /\ goal_pose_'.value.y = goal_pose_.value.y) =>
    \A O \in OffsetPoints :
      emulate_light_sensor(O[1], O[2])' = emulate_light_sensor(O[1], O[2])

InverseDistanceLaw == []InverseDistance /\ [][OrientationIrrelevant]_vars

\* goal (3, 2) with the second orientation: the tick read 1/sqrt(13) from
\* the right-mounted sensor (1, -1) and 1/sqrt(5) from the left one (1, 1)
InverseDistanceLawWitness ==
  /\ pc["timer"] = "args"
  /\ goal_pose_ = Some(Pose(3, 2, 1))
  /\ cmd_vel = [linear |-> 71, angular |-> 17]
  /\ virtual_light_sensor_position_y_offset_ = 1
  /\ args = [left |-> 27, right |-> 44]

\* a step of scan_callback, and a step of timer_callback (the two calls of
\* emulate_light_sensor included)
ScanStep == pc'["scan"] # pc["scan"]
TickStep == pc'["timer"] # pc["timer"] \/ args' # args \/ reads' # reads

\* C15 (frame of the read-only operations): no step of scan_callback or of
\* timer_callback, the calls of emulate_light_sensor included, changes the
\* goal; a step of scan_callback changes only its own position and the
\* mutex (free to held at its lock, held to free at its unlock), whatever
\* the scan message is, and publishes nothing.
ReadOnlyStep ==
  /\ (ScanStep \/ TickStep) => goal_pose_' = goal_pose_
  /\ ScanStep =>
       /\ UNCHANGED <<config, pose, last_goal, tick_ctx, tick_locals, outputs>>
       /\ pc'["goal"] = pc["goal"] /\ pc'["timer"] = pc["timer"]
       /\ pc["scan"] = "idle" => (mutex_' = mutex_ /\ pc'["scan"] = "lock")
       /\ pc["scan"] = "lock" =>
            (mutex_ = "free" /\ mutex_' = "scan" /\ pc'["scan"] = "unlock")
       /\ pc["scan"] = "unlock" =>
            (mutex_ = "scan" /\ mutex_' = "free" /\ pc'["scan"] = "idle")

ReadOnlyOperations == [][ReadOnlyStep]_vars

\* scan_callback holds the mutex for a scan with a near range while a goal
\* is held and a tick has published a computed command
ReadOnlyOperationsWitness ==
  /\ pc["scan"] = "unlock"
  /\ scan = <<1>>
  /\ goal_pose_.engaged
  /\ ticks > 0
  /\ cmd_vel \notin {NoTwist, Twist}

\* C16 (emulate_light_sensor performs no lock operation): while the tick
\* evaluates the arguments it holds the mutex before and after each sensor
\* call, and it can always take its next step (it never waits for its own
\* lock).
SensorKeepsLock ==
  pc["timer"] = "args" =>
    /\ mutex_ = "timer"
    /\ ENABLED (TimerSenseRight \/ TimerSenseLeft \/ TimerGetTwist)

SensorCallStep ==
  (pc["timer"] = "args" /\ args' # args) =>
    (mutex_ = "timer" /\ mutex_' = "timer" /\ pc'["timer"] = "args")

NoLockInSensor == []SensorKeepsLock /\ [][SensorCallStep]_vars

\* both sensor calls have returned and the tick still holds the mutex
NoLockInSensorWitness ==
  /\ pc["timer"] = "args"
  /\ args.left # Unset /\ args.right # Unset
  /\ mutex_ = "timer"
  /\ pc["goal"] = "lock"

\* C17 (mutual exclusion): at most one callback is between its lock and its
\* unlock, that callback is the holder of the mutex, and the goal is read
\* and written only by the holder.
InCriticalSection(c) ==
  IF c = "scan" THEN pc[c] = "unlock" ELSE pc[c] \notin {"idle", "lock"}

OneInCriticalSection ==
  /\ Cardinality({c \in Callbacks : InCriticalSection(c)}) <= 1
  /\ \A c \in Callbacks : InCriticalSection(c) => mutex_ = c

GoalAccessUnderLock ==
  /\ goal_pose_' # goal_pose_ =>
       (mutex_ = "goal" /\ InCriticalSection("goal"))
  /\ (reads' # reads /\ reads' # NoReads) =>
       (mutex_ = "timer" /\ InCriticalSection("timer"))

MutualExclusion == []OneInCriticalSection /\ [][GoalAccessUnderLock]_vars

\* goal_pose_callback is writing the goal while the other two callbacks
\* wait in lock()
MutualExclusionWitness ==
  /\ pc["goal"] = "assign_orientation"
  /\ pc["timer"] = "lock"
  /\ pc["scan"] = "lock"
  /\ mutex_ = "goal"

\* C18 (the no-goal branch is not taken from the tick): each sensor call of
\* a tick reads a held goal, so no argument of get_twist is the no-goal
\* reading 0, also when a rejected goal update runs concurrently.
NoGoalBranchUnreached ==
  /\ reads.right # NotRead => reads.right.engaged
  /\ reads.left # NotRead => reads.left.engaged
  /\ args.left # Unset => args.left > 0
  /\ args.right # Unset => args.right > 0
  /\ mm_call # NoCall => (mm_call.left > 0 /\ mm_call.right > 0)

\* the tick has made one sensor call while a goal update that will be
\* rejected waits for the mutex
NoGoalBranchUnreachedWitness ==
  /\ pc["timer"] = "args"
  /\ args.left # Unset /\ args.right = Unset
  /\ pc["goal"] = "lock"
  /\ pose.frame_id # base_link_frame_id_

\* C19 (configuration is immutable): no step changes the base frame id or
\* the sensor offsets, which stay within the values read at construction.
ConfigInRange ==
  /\ base_link_frame_id_ \in {"base_link", "map"}
  /\ virtual_light_sensor_position_x_offset_ = 1
  /\ virtual_light_sensor_position_y_offset_ \in {0, 1}

ConfigStep ==
  /\ base_link_frame_id_' = base_link_frame_id_
  /\ virtual_light_sensor_position_x_offset_' =
       virtual_light_sensor_position_x_offset_
  /\ virtual_light_sensor_position_y_offset_' =
       virtual_light_sensor_position_y_offset_

ConfigImmutable == []ConfigInRange /\ [][ConfigStep]_vars

\* with base frame "map" and y offset 1: scans, goal updates and ticks ran
ConfigImmutableWitness ==
  /\ base_link_frame_id_ = "map"
  /\ virtual_light_sensor_position_y_offset_ = 1
  /\ ticks = 2
  /\ pc["scan"] = "unlock"
  /\ pc["timer"] = "lock"
  /\ goal_pose_.engaged
====
